---- MODULE Spec2Model ----
(***************************************************************************)
(* The filter / post / extract pipeline of coding/python.py and            *)
(* coding/client.py.  One run of one of the two scripts is a behaviour:    *)
(* the input file and the script are fixed by Init, the service's answers  *)
(* are chosen by the environment when the POST is made.                    *)
(*                                                                         *)
(* A JSON value is a record [t |-> tag, m |-> members].  t is "object",    *)
(* "array", "string", "number", "true", "false" or "null"; m is the        *)
(* sequence of <<key, child>> pairs of an object in document order (the    *)
(* iteration order of the dict json.load builds), the items of an array,   *)
(* and <<>> otherwise.  The children of a document's root are values; the  *)
(* children of those are JSON tokens, written as strings.                  *)
(***************************************************************************)
EXTENDS Integers, Sequences, FiniteSets, TLC

VARIABLES
    prog,           \* the script that runs: "python" (python.py) or "client" (client.py)
    file,           \* example.json
    pc,             \* where main is
    data,           \* the loaded document (raw_data in python.py)
    filtered_data,  \* the payload
    retries,        \* python.py: what is left of the retry policy's total
    session,        \* python.py: the requests session
    answers,        \* what each attempt of the POST met, in order
    response_data,  \* the parsed response
    valid_keys,     \* the keys collected from the response
    stdout,         \* the lines written to standard output
    stderr,         \* the messages written to standard error
    exit_code       \* the exit code of the run, -1 while it runs

vars == <<prog, file, pc, data, filtered_data, retries, session, answers,
          response_data, valid_keys, stdout, stderr, exit_code>>

-----------------------------------------------------------------------------
(* Bounds of the model. *)

MaxInputLen == 2

MaxRespLen == 2

-----------------------------------------------------------------------------
(* JSON values. *)

Obj(members) == [t |-> "object", m |-> members]

Scalar(tag) == [t |-> tag, m |-> <<>>]

\* A variable that holds no value yet, the file that does not exist, the
\* text that is not JSON.
Unset == Scalar("unset")

Absent == Scalar("absent")

Malformed == Scalar("malformed")

\* isinstance(value, dict)
isinstance_dict(value) == value.t = "object"

\* value.get(name) on an entry of the root: the token of the field, None when
\* the field is missing.  json.load turns the token null into None as well.
Get(value, name) ==
    IF \E i \in DOMAIN value.m : value.m[i][1] = name
    THEN value.m[CHOOSE i \in DOMAIN value.m : value.m[i][1] = name][2]
    ELSE "null"

\* The entries an input document is built from.
InputValues ==
    { Obj(<< <<"private", "false">> >>),
      Obj(<< <<"private", "false">>, <<"x", "1">> >>),
      Obj(<< <<"private", "true">> >>),
      Obj(<< <<"x", "1">> >>),
      Obj(<< <<"private", "null">> >>),
      Obj(<< <<"private", "0">> >>),
      Obj(<< <<"private", "\"\"">> >>),
      Scalar("false"),
      Scalar("true") }

InputKeys == {"a", "b", "private"}

InputValuesFor(key) ==
    CASE key = "a" -> InputValues
      [] key = "b" -> { Obj(<< <<"private", "false">> >>),
                        Obj(<< <<"private", "false">>, <<"x", "1">> >>),
                        Obj(<< <<"private", "true">> >>),
                        Obj(<< <<"x", "1">> >>),
                        Scalar("true") }
      [] OTHER     -> { Scalar("false"), Scalar("true"),
                        Obj(<< <<"private", "false">> >>) }

\* The entries a response document is built from.
RespValues ==
    { Obj(<< <<"valid", "true">> >>),
      Obj(<< <<"valid", "false">> >>),
      Obj(<< <<"valid", "\"true\"">> >>),
      Obj(<<>>),
      Scalar("true") }

RespKeys == {"a", "b", "c"}

RespValuesFor(key) ==
    CASE key = "c" -> { Obj(<<>>) }
      [] OTHER     -> RespValues

\* Sequences of at most n distinct keys.
KeySeqs(K, n) ==
    { s \in UNION { [1..k -> K] : k \in 0..n } :
        \A i, j \in DOMAIN s : i # j => s[i] # s[j] }

InputObjects ==
    UNION { { Obj([i \in DOMAIN ks |-> <<ks[i], vs[i]>>]) :
                vs \in { f \in [DOMAIN ks -> InputValues] :
                           \A i \in DOMAIN ks : f[i] \in InputValuesFor(ks[i]) } } :
            ks \in KeySeqs(InputKeys, MaxInputLen) }

InputArrays ==
    { [t |-> "array", m |-> items] :
        items \in UNION { [1..k -> { Obj(<< <<"private", "false">> >>),
                                     Obj(<< <<"private", "true">> >>),
                                     Scalar("false") }] : k \in 0..MaxInputLen } }

\* What example.json can be.
Files ==
    {Absent, Malformed, Scalar("number"), Scalar("null")}
        \cup InputObjects \cup InputArrays

RespObjects ==
    UNION { { Obj([i \in DOMAIN ks |-> <<ks[i], vs[i]>>]) :
                vs \in { f \in [DOMAIN ks -> RespValues] :
                           \A i \in DOMAIN ks : f[i] \in RespValuesFor(ks[i]) } } :
            ks \in KeySeqs(RespKeys, MaxRespLen) }

\* What the body of a 2xx answer can be.
Bodies ==
    {Malformed, Scalar("null"), Scalar("string"),
     [t |-> "array", m |-> << Obj(<< <<"valid", "true">> >>) >>]}
        \cup RespObjects

-----------------------------------------------------------------------------
(* python.py: the pure functions. *)

private_is_falsy(value) == Get(value, "private") \in {"false", "null", "0", "\"\""}

\* `private_value is False`
private_is_False(value) == Get(value, "private") = "false"

kept_without_private(value) ==
    Obj(SelectSeq(value.m, LAMBDA p : p[1] # "private"))

\* `filtered[key] = value`
kept_value(value) == value

RECURSIVE filter_items(_)
filter_items(items) ==
    IF items = <<>> THEN <<>>
    ELSE LET key   == Head(items)[1]
             value == Head(items)[2]
             rest  == filter_items(Tail(items))
         IN  IF isinstance_dict(value)
             THEN IF private_is_False(value)
                  THEN << <<key, kept_value(value)>> >> \o rest
                  ELSE rest
             ELSE rest

filter_private_objects(d) == Obj(filter_items(d.m))

valid_is_truthy(value) == Get(value, "valid") \in {"true", "\"true\"", "1"}

\* `value.get('valid') is True`
valid_is_True(value) == Get(value, "valid") = "true"

RECURSIVE valid_items(_)
valid_items(items) ==
    IF items = <<>> THEN <<>>
    ELSE LET key   == Head(items)[1]
             value == Head(items)[2]
             rest  == valid_items(Tail(items))
         IN  IF isinstance_dict(value)
             THEN IF valid_is_True(value) THEN <<key>> \o rest ELSE rest
             ELSE rest

process_response(r) == valid_items(r.m)

-----------------------------------------------------------------------------
(* python.py: the retry policy of post_to_service, as urllib3 applies it. *)

\* Retry(total=3, ...)
RetryTotal == 3

\* Retry(status_forcelist=[429, 500, 502, 503, 504])
status_forcelist == {429, 500, 502, 503, 504}

\* Retry(...) is given no allowed_methods: the library's default set.
allowed_methods == {"HEAD", "GET", "PUT", "DELETE", "OPTIONS", "TRACE"}

is_method_retryable(method) == method \in allowed_methods

\* Retry.is_retry for an answer that carries no Retry-After header.
is_retry(method, status) ==
    is_method_retryable(method) /\ status \in status_forcelist

\* Retry.is_exhausted of the policy whose only counter is total.
is_exhausted(total) == total < 0

\* The statuses the service answers with.
Statuses == {200, 404, 429, 503}

\* response.raise_for_status() raises
is_error_status(status) == status >= 400 /\ status < 600

session_closed_on_return(outcome) ==
    IF outcome = "returned" THEN "closed" ELSE "open"

\* `finally: session.close()`
session_finally(outcome) == "closed"

\* The except clauses of main: every exception class returns 1.
main_except(exc) ==
    CASE exc = "FileNotFoundError"  -> 1
      [] exc = "JSONDecodeError"    -> 1
      [] exc = "RequestException"   -> 1
      [] OTHER                      -> 1

-----------------------------------------------------------------------------
(* The state after construction: a script, an input file, nothing run. *)

Init ==
    /\ prog \in {"python", "client"}
    /\ file \in Files
    /\ pc = "start"
    /\ data = Unset
    /\ filtered_data = Unset
    /\ retries = 0
    /\ session = "none"
    /\ answers = <<>>
    /\ response_data = Unset
    /\ valid_keys = <<>>
    /\ stdout = <<>>
    /\ stderr = <<>>
    /\ exit_code = -1

-----------------------------------------------------------------------------
(* python.py: main, step by step. *)

\* main catches exc, logs it and returns its exit code.
PyRaise(exc, logs) ==
    /\ pc' = "done"
    /\ exit_code' = main_except(exc)
    /\ stderr' = stderr \o logs

\* read_and_validate_json(input_file), and main's handlers when it raises.
PyLoad ==
    /\ prog = "python" /\ pc = "start"
    /\ IF file = Absent
       THEN PyRaise("FileNotFoundError", <<"Error reading file", "File error">>)
            /\ UNCHANGED data
       ELSE IF file = Malformed
       THEN PyRaise("JSONDecodeError", <<"Invalid JSON in file", "JSON parsing error">>)
            /\ UNCHANGED data
       ELSE IF ~isinstance_dict(file)
       THEN PyRaise("ValueError", <<"Error reading file", "Unexpected error">>)
            /\ UNCHANGED data
       ELSE /\ data' = file
            /\ stderr' = Append(stderr, "Successfully read and validated JSON")
            /\ pc' = "filter"
            /\ UNCHANGED exit_code
    /\ UNCHANGED <<prog, file, filtered_data, retries, session, answers,
                   response_data, valid_keys, stdout>>

PyFilterAlwaysPosts ==
    /\ prog = "python" /\ pc = "filter"
    /\ filtered_data' = filter_private_objects(data)
    /\ stderr' = Append(stderr, "Filtered objects")
    /\ pc' = "open"
    /\ UNCHANGED <<prog, file, data, retries, session, answers, response_data,
                   valid_keys, stdout, exit_code>>

\* filter_private_objects(raw_data) and the return on an empty result.
PyFilter ==
    /\ prog = "python" /\ pc = "filter"
    /\ filtered_data' = filter_private_objects(data)
    /\ IF filtered_data'.m = <<>>
       THEN /\ stderr' = stderr \o <<"Filtered objects", "No non-private objects found">>
            /\ exit_code' = 0
            /\ pc' = "done"
       ELSE /\ stderr' = Append(stderr, "Filtered objects")
            /\ pc' = "open"
            /\ UNCHANGED exit_code
    /\ UNCHANGED <<prog, file, data, retries, session, answers, response_data,
                   valid_keys, stdout>>

\* post_to_service up to the request: the retry policy and the session.
PyOpen ==
    /\ prog = "python" /\ pc = "open"
    /\ retries' = RetryTotal
    /\ session' = "open"
    /\ stderr' = Append(stderr, "POSTing")
    /\ pc' = "post"
    /\ UNCHANGED <<prog, file, data, filtered_data, answers, response_data,
                   valid_keys, stdout, exit_code>>

\* post_to_service raises exc: its handlers log, the session is closed, main
\* returns.
PyPostRaise(exc, logs) ==
    /\ session' = session_finally("raised")
    /\ PyRaise(exc, logs)
    /\ UNCHANGED response_data

\* An attempt that cannot connect.  Retry.increment counts it against total
\* whatever the method is; the adapter raises ConnectionError when exhausted.
PyPostConnectError ==
    /\ prog = "python" /\ pc = "post"
    /\ answers' = Append(answers, [err |-> "connect", status |-> 0, body |-> Unset])
    /\ retries' = retries - 1
    /\ IF is_exhausted(retries')
       THEN PyPostRaise("RequestException",
                        <<"HTTP request failed", "Service communication error">>)
       ELSE UNCHANGED <<pc, session, response_data, stderr, exit_code>>
    /\ UNCHANGED <<prog, file, data, filtered_data, valid_keys, stdout>>

\* An attempt whose answer cannot be read (reset, timeout).  Retry.increment
\* re-raises at once unless the method is retryable.
PyPostReadError ==
    /\ prog = "python" /\ pc = "post"
    /\ answers' = Append(answers, [err |-> "read", status |-> 0, body |-> Unset])
    /\ retries' = retries - 1
    /\ IF ~is_method_retryable("POST") \/ is_exhausted(retries')
       THEN PyPostRaise("RequestException",
                        <<"HTTP request failed", "Service communication error">>)
       ELSE UNCHANGED <<pc, session, response_data, stderr, exit_code>>
    /\ UNCHANGED <<prog, file, data, filtered_data, valid_keys, stdout>>

\* An attempt the service answers: retried or returned by the adapter, then
\* raise_for_status, response.json() and the check of the root.
PyPostAnswer ==
    /\ prog = "python" /\ pc = "post"
    /\ \E status \in Statuses :
       \E body \in (IF is_error_status(status) THEN {Unset} ELSE Bodies) :
          /\ answers' = Append(answers, [err |-> "none", status |-> status, body |-> body])
          /\ IF is_retry("POST", status)
             THEN /\ retries' = retries - 1
                  /\ IF is_exhausted(retries')
                     THEN PyPostRaise("RequestException",
                              <<"HTTP request failed", "Service communication error">>)
                     ELSE UNCHANGED <<pc, session, response_data, stderr, exit_code>>
             ELSE /\ UNCHANGED retries
                  /\ IF is_error_status(status)
                     THEN PyPostRaise("RequestException",
                              <<"HTTP request failed", "Response status",
                                "Service communication error">>)
                     ELSE IF body = Malformed
                     THEN PyPostRaise("JSONDecodeError",
                              <<"Invalid JSON in response", "HTTP request failed",
                                "JSON parsing error">>)
                     ELSE IF ~isinstance_dict(body)
                     THEN PyPostRaise("ValueError", <<"Unexpected error">>)
                     ELSE /\ response_data' = body
                          /\ session' = session_finally("returned")
                          /\ stderr' = Append(stderr, "Received successful response")
                          /\ pc' = "process"
                          /\ UNCHANGED exit_code
    /\ UNCHANGED <<prog, file, data, filtered_data, valid_keys, stdout>>

\* process_response(response_data)
PyProcess ==
    /\ prog = "python" /\ pc = "process"
    /\ valid_keys' = process_response(response_data)
    /\ stderr' = Append(stderr, "Found objects with 'valid': true")
    /\ pc' = "print"
    /\ UNCHANGED <<prog, file, data, filtered_data, retries, session, answers,
                   response_data, stdout, exit_code>>

PyPrintFirstOnly ==
    /\ prog = "python" /\ pc = "print"
    /\ Len(stdout) < Len(valid_keys)
    /\ stdout' = Append(stdout, valid_keys[Len(stdout) + 1])
    /\ pc' = "done"
    /\ exit_code' = 0
    /\ UNCHANGED <<prog, file, data, filtered_data, retries, session, answers,
                   response_data, valid_keys, stderr>>

\* `for key in valid_keys: print(key)`, one key
PyPrint ==
    /\ prog = "python" /\ pc = "print"
    /\ Len(stdout) < Len(valid_keys)
    /\ stdout' = Append(stdout, valid_keys[Len(stdout) + 1])
    /\ UNCHANGED <<prog, file, pc, data, filtered_data, retries, session, answers,
                   response_data, valid_keys, stderr, exit_code>>

\* `return 0` after the last key
PyReturn ==
    /\ prog = "python" /\ pc = "print"
    /\ Len(stdout) = Len(valid_keys)
    /\ pc' = "done"
    /\ exit_code' = 0
    /\ UNCHANGED <<prog, file, data, filtered_data, retries, session, answers,
                   response_data, valid_keys, stdout, stderr>>

-----------------------------------------------------------------------------
(* client.py: main, step by step. *)

\* 'private' in data
has_key(d, name) == \E i \in DOMAIN d.m : d.m[i][1] = name

\* data.get('private') on the root: the value under the key
root_get(d, name) == d.m[CHOOSE i \in DOMAIN d.m : d.m[i][1] = name][2]

\* The payload client.py builds from a root that is an object or an array.
client_filter(d) ==
    IF isinstance_dict(d)
    THEN IF has_key(d, "private")
         THEN IF root_get(d, "private").t = "false" THEN d ELSE Obj(<<>>)
         ELSE Obj(SelectSeq(d.m, LAMBDA p :
                    isinstance_dict(p[2]) /\ Get(p[2], "private") = "false"))
    ELSE [t |-> "array",
          m |-> SelectSeq(d.m, LAMBDA item :
                    isinstance_dict(item) /\ Get(item, "private") = "false")]

\* The keys client.py collects from the response.
client_valid_keys(r) ==
    IF isinstance_dict(r)
    THEN LET sel == SelectSeq(r.m, LAMBDA p :
                        isinstance_dict(p[2]) /\ Get(p[2], "valid") = "true")
         IN  [i \in DOMAIN sel |-> sel[i][1]]
    ELSE <<>>

\* print(f"  {key}")
client_key_line(key) == "  " \o key

\* The lines client.py prints once the response is parsed.
client_report(r) ==
    LET keys == client_valid_keys(r)
    IN  (IF isinstance_dict(r) THEN <<>>
         ELSE <<"Warning: Response is not a JSON object, cannot extract keys">>)
        \o (IF keys # <<>>
            THEN <<"Keys with 'valid': true:">>
                     \o [i \in DOMAIN keys |-> client_key_line(keys[i])]
            ELSE <<"No objects found with 'valid': true">>)

\* An except clause of main: a message on stderr, sys.exit(1).
ClExit(message) ==
    /\ stderr' = Append(stderr, message)
    /\ exit_code' = 1
    /\ pc' = "done"

\* open and json.load
ClLoad ==
    /\ prog = "client" /\ pc = "start"
    /\ IF file = Absent
       THEN ClExit("Error: File not found") /\ UNCHANGED <<data, stdout>>
       ELSE IF file = Malformed
       THEN ClExit("Error: Invalid JSON") /\ UNCHANGED <<data, stdout>>
       ELSE /\ data' = file
            /\ stdout' = Append(stdout, "Successfully loaded and validated example.json")
            /\ pc' = "filter"
            /\ UNCHANGED <<stderr, exit_code>>
    /\ UNCHANGED <<prog, file, filtered_data, retries, session, answers,
                   response_data, valid_keys>>

\* The filter, by the shape of the root.
ClFilter ==
    /\ prog = "client" /\ pc = "filter"
    /\ IF isinstance_dict(data) \/ data.t = "array"
       THEN /\ filtered_data' = client_filter(data)
            /\ stdout' = Append(stdout, "Filtered data to include only non-private objects")
            /\ pc' = "post"
            /\ UNCHANGED <<stderr, exit_code>>
       ELSE ClExit("Unexpected error") /\ UNCHANGED <<filtered_data, stdout>>
    /\ UNCHANGED <<prog, file, data, retries, session, answers, response_data,
                   valid_keys>>

\* The request cannot be sent, or the answer cannot be read.
ClPostError ==
    /\ prog = "client" /\ pc = "post"
    /\ \E err \in {"connect", "read"} :
          /\ answers' = Append(answers, [err |-> err, status |-> 0, body |-> Unset])
          /\ IF err = "connect"
             THEN ClExit("Error: Failed to connect to web service")
             ELSE ClExit("Unexpected error")
    /\ stdout' = Append(stdout, "Sending POST request")
    /\ UNCHANGED <<prog, file, data, filtered_data, retries, session,
                   response_data, valid_keys>>

\* urlopen(req) answered, and json.load(response).
ClPostAnswer ==
    /\ prog = "client" /\ pc = "post"
    /\ \E status \in Statuses :
       \E body \in (IF is_error_status(status) THEN {Unset} ELSE Bodies) :
          /\ answers' = Append(answers, [err |-> "none", status |-> status, body |-> body])
          /\ IF is_error_status(status)
             THEN /\ ClExit("Error: Failed to connect to web service")
                  /\ stdout' = Append(stdout, "Sending POST request")
                  /\ UNCHANGED response_data
             ELSE IF body = Malformed
             THEN /\ ClExit("Error: Invalid JSON")
                  /\ stdout' = Append(stdout, "Sending POST request")
                  /\ UNCHANGED response_data
             ELSE /\ response_data' = body
                  /\ stdout' = stdout \o <<"Sending POST request",
                                           "Received response from server">>
                  /\ pc' = "extract"
                  /\ UNCHANGED <<stderr, exit_code>>
    /\ UNCHANGED <<prog, file, data, filtered_data, retries, session, valid_keys>>

\* The keys with 'valid': true are collected and printed; main returns.
ClExtract ==
    /\ prog = "client" /\ pc = "extract"
    /\ valid_keys' = client_valid_keys(response_data)
    /\ stdout' = stdout \o client_report(response_data)
    /\ pc' = "done"
    /\ exit_code' = 0
    /\ UNCHANGED <<prog, file, data, filtered_data, retries, session, answers,
                   response_data, stderr>>

-----------------------------------------------------------------------------

Next ==
    \/ PyLoad
    \/ PyFilter
    \/ PyOpen
    \/ PyPostConnectError
    \/ PyPostReadError
    \/ PyPostAnswer
    \/ PyProcess
    \/ PyPrint
    \/ PyReturn
    \/ ClLoad
    \/ ClFilter
    \/ ClPostError
    \/ ClPostAnswer
    \/ ClExtract

Spec == Init /\ [][Next]_vars

-----------------------------------------------------------------------------
(* Types. *)

TypeOK ==
    /\ prog \in {"python", "client"}
    /\ pc \in {"start", "filter", "open", "post", "process", "print", "extract", "done"}
    /\ retries \in -1..RetryTotal
    /\ session \in {"none", "open", "closed"}
    /\ exit_code \in {-1, 0, 1}
    /\ Len(answers) <= RetryTotal + 1

-----------------------------------------------------------------------------
(* What the claims speak of, stated without the functions of the scripts. *)

\* An entry value that is a mapping whose 'private' is the boolean false.
NonPrivateEntry(v) ==
    v.t = "object" /\ \E k \in DOMAIN v.m : v.m[k] = <<"private", "false">>

\* An entry value that is a mapping whose 'valid' is the boolean true.
ValidEntry(v) ==
    v.t = "object" /\ \E k \in DOMAIN v.m : v.m[k] = <<"valid", "true">>

\* The keys of the entries of r that are valid, in the order of r.
IsValidKeysOf(keys, r) ==
    LET idx == { j \in DOMAIN r.m : ValidEntry(r.m[j][2]) }
    IN  /\ Len(keys) = Cardinality(idx)
        /\ \A j \in idx : keys[Cardinality({ k \in idx : k <= j })] = r.m[j][1]

Last(seq) == seq[Len(seq)]

\* The last attempt was answered 2xx with JSON whose root is no object.
AnsweredNonObject ==
    /\ answers # <<>>
    /\ Last(answers).err = "none"
    /\ Last(answers).status \in 200..299
    /\ Last(answers).body.t \in {"array", "string", "number", "true", "false", "null"}

\* C1: filter_private_objects returns a mapping whose entries are entries of
\* its input, unmodified, and a key of the input is kept if and only if its
\* value is a mapping whose 'private' is present and is the boolean false.
C1_FilterKeepsExactlyNonPrivate ==
    (prog = "python" /\ filtered_data # Unset) =>
        LET d == data.m
            f == filtered_data.m
        IN  /\ \A i \in DOMAIN f : \E j \in DOMAIN d : d[j] = f[i]
            /\ \A i, k \in DOMAIN f : i # k => f[i][1] # f[k][1]
            /\ \A j \in DOMAIN d :
                 (\E i \in DOMAIN f : f[i][1] = d[j][1]) <=> NonPrivateEntry(d[j][2])

C1_Witness ==
    /\ prog = "python"
    /\ Len(data.m) = 2
    /\ Len(filtered_data.m) = 1
    /\ filtered_data.m[1][2] = Obj(<< <<"private", "false">>, <<"x", "1">> >>)
    /\ \E j \in DOMAIN data.m : data.m[j][2] = Obj(<< <<"private", "0">> >>)

\* C2: process_response returns exactly the keys of the response whose value
\* is a mapping with 'valid' the boolean true, each once, in the order of the
\* response.
C2_ProcessResponseExactlyValidKeys ==
    (prog = "python" /\ response_data # Unset /\ pc \in {"print", "done"}) =>
        IsValidKeysOf(valid_keys, response_data)

C2_Witness ==
    /\ prog = "python"
    /\ pc = "print"
    /\ Len(response_data.m) = 2
    /\ response_data.m[1][2] = Obj(<< <<"valid", "\"true\"">> >>)
    /\ valid_keys = <<response_data.m[2][1]>>

\* C3: filtering the filtered mapping again yields the same mapping.
C3_FilterIdempotent ==
    (prog = "python" /\ filtered_data # Unset) =>
        filter_private_objects(filtered_data) = filtered_data

C3_Witness ==
    /\ prog = "python"
    /\ filtered_data # Unset
    /\ Len(filtered_data.m) = 1
    /\ Len(data.m) = 2

\* C4: python.py writes nothing to stdout on a run that returns non-zero, and
\* every failure kind returns non-zero; a run that returns 0 after the POST
\* has written every key process_response returned; a missing or malformed
\* input file leads to no POST.
C4_NoPartialOutput ==
    prog = "python" =>
        /\ (exit_code # 0 /\ pc = "done") => stdout = <<>>
        /\ stdout # <<>> => pc \in {"print", "done"}
        /\ (pc = "done" /\ exit_code = 0 /\ response_data # Unset) =>
               stdout = valid_keys
        /\ (pc = "done" /\ exit_code = 0 /\ response_data = Unset) =>
               stdout = <<>>
        /\ file \in {Absent, Malformed} => answers = <<>>
        /\ (pc = "done" /\ (\/ file.t # "object"
                            \/ (answers # <<>> /\ Last(answers).err # "none")
                            \/ (answers # <<>> /\ Last(answers).status >= 400)
                            \/ (answers # <<>> /\ Last(answers).body = Malformed)
                            \/ AnsweredNonObject)) => exit_code = 1

C4_Witness ==
    /\ prog = "python"
    /\ pc = "done"
    /\ exit_code = 1
    /\ answers # <<>>
    /\ Last(answers).status = 200
    /\ Last(answers).body = Malformed
    /\ stdout = <<>>

\* C5: when the loaded document has no entry whose value is a mapping with
\* 'private' the boolean false, python.py returns 0 without a network call
\* and without output; the POST is attempted only after the loader succeeded
\* and the payload is not empty.
C5_EmptyPayloadSkipsPost ==
    prog = "python" =>
        /\ (data # Unset /\ ~\E j \in DOMAIN data.m : NonPrivateEntry(data.m[j][2])) =>
               /\ answers = <<>>
               /\ session = "none"
               /\ stdout = <<>>
               /\ pc \in {"filter", "done"}
               /\ pc = "done" => exit_code = 0
        /\ (answers # <<>> \/ session # "none") =>
               /\ data # Unset
               /\ filtered_data # Unset
               /\ filtered_data.m # <<>>

C5_Witness ==
    /\ prog = "python"
    /\ pc = "done"
    /\ data = Obj(<< <<"a", Obj(<< <<"x", "1">> >>)>> >>)
    /\ filtered_data = Obj(<<>>)
    /\ exit_code = 0
    /\ answers = <<>>

\* C6: python.py retries the POST on a transient status (429, 500, 502, 503,
\* 504) up to 3 times before it surfaces an error: a run that fails on such an
\* answer has made 1 + 3 attempts.
C6_RetriesTransientStatus ==
    (/\ prog = "python"
     /\ pc = "done"
     /\ exit_code # 0
     /\ answers # <<>>
     /\ Last(answers).err = "none"
     /\ Last(answers).status \in {429, 500, 502, 503, 504}) =>
        Len(answers) = RetryTotal + 1

\* C7: when the service answers 2xx with JSON whose root is no object,
\* post_to_service returns no value, the session is closed, and main returns
\* non-zero without printing.
C7_NonObjectResponseFails ==
    (prog = "python" /\ AnsweredNonObject) =>
        /\ pc = "done"
        /\ exit_code = 1
        /\ response_data = Unset
        /\ session = "closed"
        /\ stdout = <<>>

C7_Witness ==
    /\ prog = "python"
    /\ AnsweredNonObject
    /\ Last(answers).body.t = "array"
    /\ pc = "done"
    /\ session = "closed"

\* C8: the payload client.py posts for a root that is an object is the
\* mapping of the root's entries whose value is a mapping with 'private' the
\* boolean false, and no other entry.
C8_ClientPayloadOnlyNonPrivate ==
    (prog = "client" /\ isinstance_dict(data) /\ filtered_data # Unset) =>
        filtered_data = Obj(SelectSeq(data.m, LAMBDA p : NonPrivateEntry(p[2])))

\* C9: the only lines client.py writes to stdout are the keys of the valid
\* entries of the response, and a run that fails has written nothing.
C9_ClientStdoutOnlyKeys ==
    prog = "client" =>
        /\ \A i \in DOMAIN stdout :
              \E j \in DOMAIN response_data.m :
                 /\ response_data.m[j][1] = stdout[i]
                 /\ ValidEntry(response_data.m[j][2])
        /\ (pc = "done" /\ exit_code # 0) => stdout = <<>>

\* C10: when the document has no non-private entry, client.py exits 0, prints
\* nothing and makes no network call.
C10_ClientEmptyPayloadSkipsPost ==
    (/\ prog = "client"
     /\ isinstance_dict(data)
     /\ ~\E j \in DOMAIN data.m : NonPrivateEntry(data.m[j][2])
     /\ pc = "done") =>
        /\ answers = <<>>
        /\ stdout = <<>>
        /\ exit_code = 0

====
